---------------------------- MODULE Spec2Model ----------------------------
(***************************************************************************)
(* Model of src/UpgradeToDotNet8.py: discovery of .cs files, fixed-size    *)
(* chunking, context extraction, the per-chunk remote call with its        *)
(* fallback, reassembly and in-place overwrite, and the thread-pool        *)
(* driver.                                                                 *)
(*                                                                         *)
(* A text is a sequence of one-character strings.  A file on disk is a     *)
(* sequence of bytes written the same way, with "\r" kept and one extra    *)
(* symbol, BadByte, for a byte that is not valid UTF-8.                    *)
(***************************************************************************)
EXTENDS Integers, Sequences, FiniteSets, TLC

VARIABLES
    root_exists,            \* ROOT_PATH names an existing directory
    tree,                   \* the files below ROOT_PATH
    disk,                   \* path -> bytes of the file
    disk0,                  \* history: the bytes each file started with
    linesep,                \* os.linesep of the host
    max_workers,            \* size of the ThreadPoolExecutor
    main_pc,                \* position of main()
    cs_files,               \* main: list returned by get_csharp_files
    futures,                \* main: tasks submitted so far, in order
    work_queue,             \* executor: submitted tasks no worker has taken
    pc,                     \* path -> position of its process_file task
    original_code,          \* process_file local, per task
    chunks,                 \* process_file local, per task
    context,                \* process_file local, per task
    updated_file_content,   \* process_file local, per task
    final_code,             \* process_file local, per task
    calls,                  \* history: remote calls of each task, in order
    io,                     \* history: reads, writes, extract_context runs per path
    log,                    \* thread -> log records emitted by that thread
    ct                      \* the chunk_text harness: inputs and result

vars == << root_exists, tree, disk, disk0, linesep, max_workers, main_pc, cs_files,
           futures, work_queue, pc, original_code, chunks, context,
           updated_file_content, final_code, calls, io, log, ct >>

----------------------------------------------------------------------------
(* Bounds of the model *)

\* CHUNK_SIZE is 200_000 in the source; the model scales it down.
CHUNK_SIZE == 10
\* Largest pool size tried; the host decides the real one.
MaxWorkers == 2
\* chunk_text harness: longest text and largest chunk size tried.
MaxLen == 4
MaxChunk == 3

----------------------------------------------------------------------------
(* Characters and string helpers *)

LF == "\n"
CR == "\r"
BadByte == "0xFF"

\* \s of Python's re module, restricted to the characters of the model
SpaceChars == {" ", "\t", "\n", "\r"}

\* \w of Python's re module, restricted to the characters of the model
WordChars ==
    {"a", "b", "c", "d", "e", "f", "g", "h", "i", "j", "k", "l", "m",
     "n", "o", "p", "q", "r", "s", "t", "u", "v", "w", "x", "y", "z",
     "A", "B", "C", "D", "E", "F", "G", "H", "I", "J", "K", "L", "M",
     "N", "O", "P", "Q", "R", "S", "T", "U", "V", "W", "X", "Y", "Z",
     "0", "1", "2", "3", "4", "5", "6", "7", "8", "9", "_"}

Min(S) == CHOOSE x \in S : \A y \in S : x <= y
Max(S) == CHOOSE x \in S : \A y \in S : x >= y

\* text[start:end] of Python for 0 <= start <= end (positions are 0-based)
Slice(text, start, end) ==
    SubSeq(text, start + 1, IF end < Len(text) THEN end ELSE Len(text))

\* sep.join(parts)
RECURSIVE Join(_, _)
Join(sep, parts) ==
    IF parts = << >> THEN << >>
    ELSE IF Len(parts) = 1 THEN parts[1]
    ELSE parts[1] \o sep \o Join(sep, Tail(parts))

\* str.strip(): drop leading and trailing whitespace
Strip(text) ==
    LET keep == {i \in 1..Len(text) : text[i] \notin SpaceChars}
    IN  IF keep = {} THEN << >> ELSE SubSeq(text, Min(keep), Max(keep))

\* str.endswith(suffix)
EndsWith(text, suffix) ==
    /\ Len(suffix) <= Len(text)
    /\ SubSeq(text, Len(text) - Len(suffix) + 1, Len(text)) = suffix

\* whether lit occurs in t at 1-based position p
LitAt(t, p, lit) ==
    /\ p + Len(lit) - 1 <= Len(t)
    /\ SubSeq(t, p, p + Len(lit) - 1) = lit

\* first position q >= p whose character is outside cls (Len(t)+1 if none):
\* where a greedy cls* started at p stops
SkipWhile(t, p, cls) ==
    Min({q \in p..(Len(t) + 1) : q = Len(t) + 1 \/ t[q] \notin cls})

----------------------------------------------------------------------------
(* chunk_text, lines 86-97 *)

\* faulty variant: the loop stops when less than a whole chunk is left
RECURSIVE chunk_loop_whole(_, _, _, _)
chunk_loop_whole(text, chunk_size, start, acc) ==
    IF start + chunk_size <= Len(text)
    THEN LET end == start + chunk_size
         IN  chunk_loop_whole(text, chunk_size, end,
                              Append(acc, Slice(text, start, end)))
    ELSE acc

chunk_text_whole(text, chunk_size) == chunk_loop_whole(text, chunk_size, 0, << >>)

RECURSIVE chunk_loop(_, _, _, _)
chunk_loop(text, chunk_size, start, acc) ==
    IF start < Len(text)
    THEN LET end == start + chunk_size
         IN  chunk_loop(text, chunk_size, end, Append(acc, Slice(text, start, end)))
    ELSE acc

chunk_text(text, chunk_size) == chunk_loop(text, chunk_size, 0, << >>)

----------------------------------------------------------------------------
(* extract_context, lines 55-83.  Each regular expression is matched the   *)
(* way re does it: leftmost, greedy, alternatives tried in order, findall  *)
(* resuming where the previous match ended.                                *)

S_using == <<"u", "s", "i", "n", "g">>
S_namespace == <<"n", "a", "m", "e", "s", "p", "a", "c", "e">>
S_public == <<"p", "u", "b", "l", "i", "c">>
S_internal == <<"i", "n", "t", "e", "r", "n", "a", "l">>
S_private == <<"p", "r", "i", "v", "a", "t", "e">>
S_protected == <<"p", "r", "o", "t", "e", "c", "t", "e", "d">>
S_partial == <<"p", "a", "r", "t", "i", "a", "l">>
S_class == <<"c", "l", "a", "s", "s">>
S_struct == <<"s", "t", "r", "u", "c", "t">>
S_record == <<"r", "e", "c", "o", "r", "d">>
S_override == <<"o", "v", "e", "r", "r", "i", "d", "e">>
S_virtual == <<"v", "i", "r", "t", "u", "a", "l">>
L_Namespace == <<"N", "a", "m", "e", "s", "p", "a", "c", "e", ":", " ">>
L_Classes == <<"C", "l", "a", "s", "s", "e", "s", ":", " ">>
L_Methods == <<"M", "e", "t", "h", "o", "d", "s", ":", " ">>
CommaSpace == <<",", " ">>

NoMatch == [end |-> 0, kind |-> << >>, name |-> << >>]

\* ^ under re.MULTILINE: the start of the text or just after a newline
AtLineStart(t, p) == p = 1 \/ t[p - 1] = LF

\* ^\s*using\s+[\w\.]+;  at p: the position after the match, 0 if none
UsingEnd(t, p) ==
    IF ~AtLineStart(t, p) THEN 0
    ELSE LET q1 == SkipWhile(t, p, SpaceChars)
         IN  IF ~LitAt(t, q1, S_using) THEN 0
             ELSE LET q2 == q1 + Len(S_using)
                      q3 == SkipWhile(t, q2, SpaceChars)
                      q4 == SkipWhile(t, q3, WordChars \cup {"."})
                  IN  IF q3 = q2 \/ q4 = q3 THEN 0
                      ELSE IF q4 > Len(t) THEN 0
                      ELSE IF t[q4] # ";" THEN 0
                      ELSE q4 + 1

\* re.findall of the using pattern: the whole matches, in order
RECURSIVE FindUsing(_, _)
FindUsing(t, p) ==
    IF p > Len(t) + 1 THEN << >>
    ELSE LET e == UsingEnd(t, p)
         IN  IF e = 0 THEN FindUsing(t, p + 1)
             ELSE << SubSeq(t, p, e - 1) >> \o FindUsing(t, e)

\* ^\s*namespace\s+([\w\.]+)  at p: end and group 1
NamespaceAt(t, p) ==
    IF ~AtLineStart(t, p) THEN NoMatch
    ELSE LET q1 == SkipWhile(t, p, SpaceChars)
         IN  IF ~LitAt(t, q1, S_namespace) THEN NoMatch
             ELSE LET q2 == q1 + Len(S_namespace)
                      q3 == SkipWhile(t, q2, SpaceChars)
                      q4 == SkipWhile(t, q3, WordChars \cup {"."})
                  IN  IF q3 = q2 \/ q4 = q3 THEN NoMatch
                      ELSE [end |-> q4, kind |-> << >>, name |-> SubSeq(t, q3, q4 - 1)]

\* re.search of the namespace pattern: the leftmost match
RECURSIVE SearchNamespace(_, _)
SearchNamespace(t, p) ==
    IF p > Len(t) + 1 THEN NoMatch
    ELSE LET m == NamespaceAt(t, p)
         IN  IF m.end = 0 THEN SearchNamespace(t, p + 1) ELSE m

\* (?:public|internal|private|protected) at p: its length, 0 if none
ModifierLen(t, p) ==
    IF LitAt(t, p, S_public) THEN Len(S_public)
    ELSE IF LitAt(t, p, S_internal) THEN Len(S_internal)
    ELSE IF LitAt(t, p, S_private) THEN Len(S_private)
    ELSE IF LitAt(t, p, S_protected) THEN Len(S_protected)
    ELSE 0

\* kw\s+ at q: the position after it, 0 if none
KeywordSpace(t, q, kw) ==
    IF ~LitAt(t, q, kw) THEN 0
    ELSE LET q1 == q + Len(kw)
             q2 == SkipWhile(t, q1, SpaceChars)
         IN  IF q2 = q1 THEN 0 ELSE q2

\* (class|struct|record)\s+(\w+) at q
ClassTail(t, q) ==
    LET kind == IF LitAt(t, q, S_class) THEN S_class
                ELSE IF LitAt(t, q, S_struct) THEN S_struct
                ELSE IF LitAt(t, q, S_record) THEN S_record
                ELSE << >>
    IN  IF kind = << >> THEN NoMatch
        ELSE LET q1 == q + Len(kind)
                 q2 == SkipWhile(t, q1, SpaceChars)
                 q3 == SkipWhile(t, q2, WordChars)
             IN  IF q2 = q1 \/ q3 = q2 THEN NoMatch
                 ELSE [end |-> q3, kind |-> kind, name |-> SubSeq(t, q2, q3 - 1)]

\* (?:public|...)\s+(?:partial\s+)?(class|struct|record)\s+(\w+) at p
ClassAt(t, p) ==
    LET m == ModifierLen(t, p)
        q == SkipWhile(t, p + m, SpaceChars)
        a == KeywordSpace(t, q, S_partial)
        withPartial == IF a = 0 THEN NoMatch ELSE ClassTail(t, a)
    IN  IF m = 0 THEN NoMatch
        ELSE IF q = p + m THEN NoMatch
        ELSE IF withPartial.end # 0 THEN withPartial
        ELSE ClassTail(t, q)

\* re.findall of the class pattern: the (kind, name) groups, in order
RECURSIVE FindClasses(_, _)
FindClasses(t, p) ==
    IF p > Len(t) THEN << >>
    ELSE LET m == ClassAt(t, p)
         IN  IF m.end = 0 THEN FindClasses(t, p + 1)
             ELSE << m >> \o FindClasses(t, m.end)

\* \w[\w<>]*\s+(\w+)\(.*?\) at q
MethodTail(t, q) ==
    IF q > Len(t) THEN NoMatch
    ELSE IF t[q] \notin WordChars THEN NoMatch
    ELSE LET q1 == SkipWhile(t, q + 1, WordChars \cup {"<", ">"})
             q2 == SkipWhile(t, q1, SpaceChars)
             q3 == SkipWhile(t, q2, WordChars)
         IN  IF q2 = q1 \/ q3 = q2 THEN NoMatch
             ELSE IF q3 > Len(t) THEN NoMatch
             ELSE IF t[q3] # "(" THEN NoMatch
             ELSE LET q4 == Min({r \in (q3 + 1)..(Len(t) + 1) :
                                   r = Len(t) + 1 \/ t[r] \in {")", LF}})
                  IN  IF q4 > Len(t) THEN NoMatch
                      ELSE IF t[q4] # ")" THEN NoMatch
                      ELSE [end |-> q4 + 1, kind |-> << >>,
                            name |-> SubSeq(t, q2, q3 - 1)]

\* (?:public|...)\s+(?:override\s+)?(?:virtual\s+)?\w[\w<>]*\s+(\w+)\(.*?\) at p:
\* each optional group is tried present first, then absent
MethodAt(t, p) ==
    LET m == ModifierLen(t, p)
        q == SkipWhile(t, p + m, SpaceChars)
        a == KeywordSpace(t, q, S_override)
        b == IF a = 0 THEN 0 ELSE KeywordSpace(t, a, S_virtual)
        c == KeywordSpace(t, q, S_virtual)
        m1 == IF b = 0 THEN NoMatch ELSE MethodTail(t, b)
        m2 == IF a = 0 THEN NoMatch ELSE MethodTail(t, a)
        m3 == IF c = 0 THEN NoMatch ELSE MethodTail(t, c)
    IN  IF m = 0 THEN NoMatch
        ELSE IF q = p + m THEN NoMatch
        ELSE IF m1.end # 0 THEN m1
        ELSE IF m2.end # 0 THEN m2
        ELSE IF m3.end # 0 THEN m3
        ELSE MethodTail(t, q)

\* re.findall of the method pattern: the method names, in order
RECURSIVE FindMethods(_, _)
FindMethods(t, p) ==
    IF p > Len(t) THEN << >>
    ELSE LET m == MethodAt(t, p)
         IN  IF m.end = 0 THEN FindMethods(t, p + 1)
             ELSE << m.name >> \o FindMethods(t, m.end)

ClassLabel(c) == c.kind \o << " " >> \o c.name

extract_context(csharp_code) ==
    LET using_statements == FindUsing(csharp_code, 1)
        class_names == FindClasses(csharp_code, 1)
        method_signatures == FindMethods(csharp_code, 1)
        namespace_match == SearchNamespace(csharp_code, 1)
        p1 == IF using_statements # << >>
              THEN << Join(<< LF >>, using_statements) >> ELSE << >>
        p2 == IF namespace_match.end # 0
              THEN << L_Namespace \o namespace_match.name >> ELSE << >>
        p3 == IF class_names # << >>
              THEN << L_Classes \o
                      Join(CommaSpace, [i \in 1..Len(class_names) |->
                                           ClassLabel(class_names[i])]) >>
              ELSE << >>
        p4 == IF method_signatures # << >>
              THEN << L_Methods \o Join(CommaSpace, method_signatures) >>
              ELSE << >>
        context_parts == p1 \o p2 \o p3 \o p4
    IN  Strip(Join(<< LF >>, context_parts))

----------------------------------------------------------------------------
(* The file system and the text-mode codec of open(), lines 132 and 148 *)

PathA == "a.cs"
PathB == "sub/b.cs"
PathD == "d.txt"
Paths == {PathA, PathB, PathD}

\* the file name os.walk reports for each path
FileName(p) ==
    CASE p = PathA -> <<"a", ".", "c", "s">>
      [] p = PathB -> <<"b", ".", "c", "s">>
      [] p = PathD -> <<"d", ".", "t", "x", "t">>

DotCs == <<".", "c", "s">>

\* file contents tried (bytes)
B_EMPTY == << >>
B_SMALL == <<"u", "s", "i", "n", "g", " ", "A", ";">>
B_CRLF == <<"a", "\r", "\n", "b">>
B_BAD == <<"a", BadByte>>
B_CTX == <<"u", "s", "i", "n", "g", " ", "A", ";", "\n", "i", "n", "t", " ", "x", "=", "1", ";">>
B_PLAIN == <<"/", "/", " ", "c", "o", "m", "m", "e", "n", "t", " ", "1">>
B_LONG == <<"p", "u", "b", "l", "i", "c", " ", "c", "l", "a", "s", "s">>
          \o <<" ", "C", "{", " ", "i", "n", "t", " ", "x", ";", " ", "}", "\r", "\n">>

Contents(p) ==
    CASE p = PathA -> {B_EMPTY, B_SMALL, B_CRLF, B_BAD, B_CTX, B_PLAIN, B_LONG}
      [] p = PathB -> {B_BAD, B_CRLF}
      [] p = PathD -> {B_SMALL}

\* f.read() with encoding="utf-8" raises UnicodeDecodeError on an invalid byte
Decodable(bytes) == \A i \in 1..Len(bytes) : bytes[i] # BadByte

\* newline=None on reading: "\r\n" and "\r" become "\n"
RECURSIVE UniversalNewlines(_)
UniversalNewlines(bytes) ==
    IF bytes = << >> THEN << >>
    ELSE IF bytes[1] = CR
         THEN IF Len(bytes) >= 2 /\ bytes[2] = LF
              THEN << LF >> \o UniversalNewlines(SubSeq(bytes, 3, Len(bytes)))
              ELSE << LF >> \o UniversalNewlines(Tail(bytes))
         ELSE << bytes[1] >> \o UniversalNewlines(Tail(bytes))

\* newline=None on writing: each "\n" becomes os.linesep
RECURSIVE TranslateNewlines(_, _)
TranslateNewlines(text, sep) ==
    IF text = << >> THEN << >>
    ELSE (IF text[1] = LF THEN sep ELSE << text[1] >>)
         \o TranslateNewlines(Tail(text), sep)

\* faulty variant: no suffix filter
is_csharp_any(f) == TRUE

\* line 50
is_csharp(f) == EndsWith(f, DotCs)

\* all orderings of a finite set, as sequences
Orderings(S) ==
    {q \in [1..Cardinality(S) -> S] : \A i, j \in 1..Cardinality(S) : q[i] = q[j] => i = j}

\* get_csharp_files, lines 43-52: the lists os.walk can produce (directory
\* listing order is the file system's); nothing when the root is missing
get_csharp_files ==
    IF root_exists
    THEN Orderings({p \in tree : is_csharp(FileName(p))})
    ELSE {<< >>}

----------------------------------------------------------------------------
(* upgrade_code_chunk and the pieces of process_file *)

S_compatible == <<"c", "o", "m", "p", "a", "t", "i", "b", "l", "e">>
R_COMPAT == <<" ", "c", "o", "m", "p", "a", "t", "i", "b", "l", "e", "\n">>
R_UPPER == <<"C", "o", "m", "p", "a", "t", "i", "b", "l", "e">>
R_QUOTED == <<"'", "c", "o", "m", "p", "a", "t", "i", "b", "l", "e", "'">>
R_NEW == <<"y", "=", "2", ";">>

\* texts the remote model is made to return
Responses == {S_compatible, R_COMPAT, R_UPPER, R_QUOTED, R_NEW}

\* line 104
combined_code(code_chunk, chunk_context) ==
    IF chunk_context # << >>
    THEN chunk_context \o << LF, LF >> \o code_chunk
    ELSE code_chunk

\* lines 106-108: the two fields USER_PROMPT_TEMPLATE is filled with
user_prompt(code_chunk, chunk_context) ==
    [chunk_context |-> chunk_context,
     code_chunk |-> combined_code(code_chunk, chunk_context)]

\* faulty variant: the text that was sent is returned
fallback_combined(code_chunk, chunk_context) == combined_code(code_chunk, chunk_context)

\* lines 121-123: what upgrade_code_chunk returns when the call raised
fallback(code_chunk, chunk_context) == code_chunk

\* faulty variant: the marker is compared without strip()
substitute_exact(updated_chunk, chunk) ==
    IF updated_chunk = S_compatible THEN chunk ELSE updated_chunk

\* lines 142-143
substitute(updated_chunk, chunk) ==
    IF Strip(updated_chunk) = S_compatible THEN chunk ELSE updated_chunk

\* faulty variant: the context is extracted whatever the chunk count
file_context_always(code, chunk_list) ==
    [value |-> extract_context(code), runs |-> 1]

\* line 137: the context of the file, and how often extract_context ran
file_context(code, chunk_list) ==
    IF Len(chunk_list) > 1
    THEN [value |-> extract_context(code), runs |-> 1]
    ELSE [value |-> << >>, runs |-> 0]

\* faulty variant: the parts are joined without a separator
reassemble_concat(parts) == Join(<< >>, parts)

\* line 146
reassemble(parts) == Join(<< LF >>, parts)

----------------------------------------------------------------------------
(* State machine *)

Threads == Paths \cup {"main"}
Terminated == {"done", "failed"}
\* faulty variant: a task that raised keeps its worker
Running_and_failed == {"read", "loop", "call", "failed"}

\* the positions at which a task occupies a worker thread
Running == {"read", "loop", "call"}

NoIo == [reads |-> 0, writes |-> 0, extracts |-> 0]
IdleCt == [text |-> << >>, size |-> 1, out |-> << >>, pc |-> "idle"]

Emit(th, level, msg) == log' = [log EXCEPT ![th] = Append(@, [level |-> level, msg |-> msg])]

InitTasks ==
    /\ main_pc = "start"
    /\ cs_files = << >>
    /\ futures = << >>
    /\ work_queue = << >>
    /\ pc = [p \in Paths |-> "none"]
    /\ original_code = [p \in Paths |-> << >>]
    /\ chunks = [p \in Paths |-> << >>]
    /\ context = [p \in Paths |-> << >>]
    /\ updated_file_content = [p \in Paths |-> << >>]
    /\ final_code = [p \in Paths |-> << >>]
    /\ calls = [p \in Paths |-> << >>]
    /\ io = [p \in Paths |-> NoIo]
    /\ log = [th \in Threads |-> << >>]

Init ==
    /\ root_exists \in BOOLEAN
    /\ tree \in (IF root_exists THEN SUBSET Paths ELSE {{}})
    /\ disk \in {d \in [Paths -> UNION {Contents(p) : p \in Paths} \cup {<< >>}] :
                   \A p \in Paths : IF p \in tree THEN d[p] \in Contents(p)
                                    ELSE d[p] = << >>}
    /\ disk0 = disk
    /\ linesep \in {<< LF >>, << CR, LF >>}
    /\ max_workers \in 1..MaxWorkers
    /\ InitTasks
    /\ ct = IdleCt

mainVars == << main_pc, cs_files, futures >>
hostVars == << root_exists, tree, disk0, linesep, max_workers >>
localVars == << original_code, chunks, context, updated_file_content, final_code >>

(* main, lines 154-169 *)

\* lines 158-161: nothing found
Main_DiscoverNone ==
    /\ main_pc = "start"
    /\ << >> \in get_csharp_files
    /\ cs_files' = << >>
    /\ Emit("main", "WARNING", "No .cs files found")
    /\ main_pc' = "returned"
    /\ UNCHANGED << hostVars, disk, futures, work_queue, pc, localVars, calls, io, ct >>

\* lines 158-163: some files found
Main_DiscoverSome ==
    /\ main_pc = "start"
    /\ \E found \in get_csharp_files :
          /\ found # << >>
          /\ cs_files' = found
    /\ Emit("main", "INFO", "Found files. Starting upgrade")
    /\ main_pc' = "submit"
    /\ UNCHANGED << hostVars, disk, futures, work_queue, pc, localVars, calls, io, ct >>

\* line 166: executor.submit for the next file of cs_files
Main_Submit ==
    /\ main_pc = "submit"
    /\ Len(futures) < Len(cs_files)
    /\ LET f == cs_files[Len(futures) + 1]
       IN  /\ futures' = Append(futures, f)
           /\ work_queue' = Append(work_queue, f)
           /\ pc' = [pc EXCEPT ![f] = "queued"]
    /\ UNCHANGED << hostVars, disk, main_pc, cs_files, localVars, calls, io, log, ct >>

\* faulty variant: FIRST_COMPLETED
wait_over_first(fs) == \E i \in 1..Len(fs) : pc[fs[i]] \in Terminated

\* what concurrent.futures.wait(futures) waits for (ALL_COMPLETED)
wait_over(fs) == \A i \in 1..Len(fs) : pc[fs[i]] \in Terminated

\* lines 167, 165 and 169: wait returns once every future is done, the
\* executor shuts down, and completion is logged; a task's exception stays
\* in its future, nothing calls result()
Main_Wait ==
    /\ main_pc = "submit"
    /\ Len(futures) = Len(cs_files)
    /\ wait_over(futures)
    /\ Emit("main", "INFO", "All files processed")
    /\ main_pc' = "returned"
    /\ UNCHANGED << hostVars, disk, cs_files, futures, work_queue, pc, localVars,
                    calls, io, ct >>

(* the executor's workers *)

\* a worker takes the oldest queued task when fewer than max_workers run
Worker_Start ==
    /\ work_queue # << >>
    /\ Cardinality({p \in Paths : pc[p] \in Running}) < max_workers
    /\ pc' = [pc EXCEPT ![Head(work_queue)] = "read"]
    /\ work_queue' = Tail(work_queue)
    /\ UNCHANGED << hostVars, disk, mainVars, localVars, calls, io, log, ct >>

(* process_file, lines 126-151 *)

\* lines 131-139: the file decodes; each local is computed from the ones
\* assigned before it
PF_Read(f) ==
    /\ pc[f] = "read"
    /\ Decodable(disk[f])
    /\ Emit(f, "INFO", "Processing")
    /\ original_code' = [original_code EXCEPT ![f] = UniversalNewlines(disk[f])]
    /\ chunks' = [chunks EXCEPT ![f] = chunk_text(original_code'[f], CHUNK_SIZE)]
    /\ \E ctx \in {file_context(original_code'[f], chunks'[f])} :
          /\ context' = [context EXCEPT ![f] = ctx.value]
          /\ io' = [io EXCEPT ![f].reads = @ + 1, ![f].extracts = @ + ctx.runs]
    /\ updated_file_content' = [updated_file_content EXCEPT ![f] = << >>]
    /\ pc' = [pc EXCEPT ![f] = "loop"]
    /\ UNCHANGED << hostVars, disk, mainVars, work_queue, final_code, calls, ct >>

\* lines 131-133: f.read() raises and the task ends with that exception
PF_ReadFail(f) ==
    /\ pc[f] = "read"
    /\ ~Decodable(disk[f])
    /\ io' = [io EXCEPT ![f].reads = @ + 1]
    /\ Emit(f, "INFO", "Processing")
    /\ pc' = [pc EXCEPT ![f] = "failed"]
    /\ UNCHANGED << hostVars, disk, mainVars, work_queue, localVars, calls, ct >>

\* the chunk the for loop of line 140 is at
chunk_at(f) == chunks[f][Len(updated_file_content[f]) + 1]

\* lines 140-141 and 104-118: the request for the next chunk is sent
PF_CallBegin(f) ==
    /\ pc[f] = "loop"
    /\ Len(updated_file_content[f]) < Len(chunks[f])
    /\ calls' = [calls EXCEPT ![f] =
                    Append(@, [chunk |-> chunk_at(f),
                               prompt |-> user_prompt(chunk_at(f), context[f]),
                               status |-> "inflight",
                               content |-> << >>])]
    /\ pc' = [pc EXCEPT ![f] = "call"]
    /\ UNCHANGED << hostVars, disk, mainVars, work_queue, localVars, io, log, ct >>

\* lines 119-120 and 142-144: the call returns a text
PF_CallReturn(f) ==
    /\ pc[f] = "call"
    /\ \E content \in Responses :
          /\ calls' = [calls EXCEPT ![f][Len(calls[f])].status = "returned",
                                    ![f][Len(calls[f])].content = content]
          /\ updated_file_content' =
                [updated_file_content EXCEPT ![f] =
                    Append(@, substitute(content, chunk_at(f)))]
    /\ pc' = [pc EXCEPT ![f] = "loop"]
    /\ UNCHANGED << hostVars, disk, mainVars, work_queue, original_code, chunks,
                    context, final_code, io, log, ct >>

\* faulty variant: a call that raised is made again
PF_CallRaise_retry(f) ==
    /\ pc[f] = "call"
    /\ calls' = [calls EXCEPT ![f][Len(calls[f])].status = "raised"]
    /\ Emit(f, "ERROR", "Error calling Azure OpenAI API")
    /\ pc' = [pc EXCEPT ![f] = "loop"]
    /\ UNCHANGED << hostVars, disk, mainVars, work_queue, localVars, io, ct >>

\* lines 121-123 and 142-144: the call raises
PF_CallRaise(f) ==
    /\ pc[f] = "call"
    /\ calls' = [calls EXCEPT ![f][Len(calls[f])].status = "raised"]
    /\ Emit(f, "ERROR", "Error calling Azure OpenAI API")
    /\ updated_file_content' =
          [updated_file_content EXCEPT ![f] =
              Append(@, substitute(fallback(chunk_at(f), context[f]), chunk_at(f)))]
    /\ pc' = [pc EXCEPT ![f] = "loop"]
    /\ UNCHANGED << hostVars, disk, mainVars, work_queue, original_code, chunks,
                    context, final_code, io, ct >>

\* lines 146-151: the loop is over; join, overwrite the file, log
PF_Write(f) ==
    /\ pc[f] = "loop"
    /\ Len(updated_file_content[f]) = Len(chunks[f])
    /\ final_code' = [final_code EXCEPT ![f] = reassemble(updated_file_content[f])]
    /\ disk' = [disk EXCEPT ![f] = TranslateNewlines(final_code'[f], linesep)]
    /\ io' = [io EXCEPT ![f].writes = @ + 1]
    /\ Emit(f, "INFO", "Finished processing")
    /\ pc' = [pc EXCEPT ![f] = "done"]
    /\ UNCHANGED << hostVars, mainVars, work_queue, original_code, chunks, context,
                    updated_file_content, calls, ct >>

process_file(f) ==
    \/ PF_Read(f)
    \/ PF_ReadFail(f)
    \/ PF_CallBegin(f)
    \/ PF_CallReturn(f)
    \/ PF_CallRaise(f)
    \/ PF_Write(f)

Next ==
    \/ Main_DiscoverNone
    \/ Main_DiscoverSome
    \/ Main_Submit
    \/ Main_Wait
    \/ Worker_Start
    \/ \E f \in Paths : process_file(f)

Spec == Init /\ [][Next]_vars

\* each thread keeps running, and a remote call in flight ends
Fairness ==
    /\ WF_vars(Main_DiscoverNone \/ Main_DiscoverSome \/ Main_Submit \/ Main_Wait)
    /\ WF_vars(Worker_Start)
    /\ \A f \in Paths : WF_vars(process_file(f))

\* the liveness runs draw the files from the contents without declarations
FairContents == {B_EMPTY, B_SMALL, B_CRLF, B_BAD, B_PLAIN}

InitFair == Init /\ \A p \in tree : disk[p] \in FairContents

FairSpec == InitFair /\ [][Next]_vars /\ Fairness

----------------------------------------------------------------------------
(* Harness for chunk_text as a pure function *)

Alphabet == {"a", "b", LF}
Texts == UNION {[1..n -> Alphabet] : n \in 0..MaxLen}

InitChunk ==
    /\ root_exists = FALSE
    /\ tree = {}
    /\ disk = [p \in Paths |-> << >>]
    /\ disk0 = disk
    /\ linesep = << LF >>
    /\ max_workers = 1
    /\ InitTasks
    /\ ct \in {[text |-> t, size |-> c, out |-> << >>, pc |-> "ready"] :
                 t \in Texts, c \in 1..MaxChunk}

Chunk_Call ==
    /\ ct.pc = "ready"
    /\ ct' = [ct EXCEPT !.out = chunk_text(ct.text, ct.size), !.pc = "done"]
    /\ UNCHANGED << hostVars, disk, mainVars, work_queue, pc, localVars, calls, io, log >>

NextChunk == Chunk_Call

SpecChunk == InitChunk /\ [][NextChunk]_vars

----------------------------------------------------------------------------
(* Claims *)

CeilDiv(a, b) == (a + b - 1) \div b

RECURSIVE Concat(_)
Concat(parts) == IF parts = << >> THEN << >> ELSE Head(parts) \o Concat(Tail(parts))

RECURSIVE TotalLen(_)
TotalLen(parts) == IF parts = << >> THEN 0 ELSE Len(Head(parts)) + TotalLen(Tail(parts))

\* where part i starts in a text made of the parts with one separator
\* character between neighbours (0-based offset)
OffsetOf(parts, i) == TotalLen(SubSeq(parts, 1, i - 1)) + (i - 1)

\* the piece of the written text at part i's position
SegmentAt(text, parts, i) ==
    SubSeq(text, OffsetOf(parts, i) + 1, OffsetOf(parts, i) + Len(parts[i]))

\* what the code is meant to put at chunk i of f, from the call's outcome
ResultOf(f, i) ==
    IF calls[f][i].status = "raised" THEN chunks[f][i]
    ELSE IF calls[f][i].content \in {S_compatible, R_COMPAT} THEN chunks[f][i]
    ELSE calls[f][i].content

\* C1: for every text of length L and chunk size C > 0, chunk_text returns
\* ceil(L/C) chunks (none when L = 0), every chunk has length 1..C, only the
\* last may be shorter than C, and the chunks concatenated give the text.
C1_ChunkContract ==
    ct.pc = "done" =>
        LET n == Len(ct.out)
        IN  /\ n = CeilDiv(Len(ct.text), ct.size)
            /\ \A i \in 1..n : Len(ct.out[i]) >= 1 /\ Len(ct.out[i]) <= ct.size
            /\ \A i \in 1..(n - 1) : Len(ct.out[i]) = ct.size
            /\ Concat(ct.out) = ct.text

C1_Witness ==
    /\ ct.pc = "done"
    /\ Len(ct.text) = 4
    /\ ct.size = 3
    /\ Len(ct.out) = 2
    /\ Len(ct.out[2]) = 1

\* C2: a call that returns a text whose strip() is exactly "compatible" puts
\* the original chunk at that position of the output; any other returned
\* text ("Compatible", "'compatible'", new code) is put there as returned.
C2_MarkerKeepsChunk ==
    \A f \in Paths : \A i \in 1..Len(updated_file_content[f]) :
        calls[f][i].status = "returned" =>
            /\ calls[f][i].chunk = chunks[f][i]
            /\ updated_file_content[f][i] =
                  (IF calls[f][i].content \in {S_compatible, R_COMPAT}
                   THEN chunks[f][i] ELSE calls[f][i].content)
            /\ pc[f] = "done" =>
                  SegmentAt(final_code[f], updated_file_content[f], i) =
                     (IF calls[f][i].content \in {S_compatible, R_COMPAT}
                      THEN chunks[f][i] ELSE calls[f][i].content)

C2_Witness ==
    \E f \in Paths :
        /\ pc[f] = "done"
        /\ Len(calls[f]) = 3
        /\ calls[f][1].content = R_COMPAT
        /\ updated_file_content[f][1] = chunks[f][1]
        /\ calls[f][2].content = R_QUOTED
        /\ updated_file_content[f][2] = R_QUOTED
        /\ calls[f][3].content = R_UPPER
        /\ updated_file_content[f][3] = R_UPPER

ErrorCount(f) == Cardinality({k \in 1..Len(log[f]) : log[f][k].level = "ERROR"})
RaisedCalls(f) == {i \in 1..Len(calls[f]) : calls[f][i].status = "raised"}

\* C3: when the remote call raises for a chunk, the output holds the original
\* chunk at that position (the chunk alone, without the context prefix that
\* was sent), and one error is logged per failed call.
C3_FailureKeepsChunk ==
    \A f \in Paths :
        /\ \A i \in RaisedCalls(f) :
              /\ calls[f][i].chunk = chunks[f][i]
              /\ updated_file_content[f][i] = chunks[f][i]
              /\ pc[f] = "done" =>
                    SegmentAt(final_code[f], updated_file_content[f], i) = chunks[f][i]
        /\ ErrorCount(f) = Cardinality(RaisedCalls(f))

C3_Witness ==
    \E f \in Paths :
        /\ pc[f] = "done"
        /\ context[f] # << >>
        /\ calls[f][1].status = "raised"
        /\ calls[f][1].prompt.code_chunk # chunks[f][1]
        /\ updated_file_content[f][1] = chunks[f][1]
        /\ ErrorCount(f) = 1

\* C4: scenario B: a single file shorter than the chunk size whose remote
\* call returns "compatible" is unchanged after the run.
C4_FileUnchanged ==
    \A f \in Paths :
        ( /\ cs_files = << f >>
          /\ pc[f] = "done"
          /\ Len(disk0[f]) < CHUNK_SIZE
          /\ \A i \in 1..Len(calls[f]) :
                calls[f][i].status = "returned" /\ calls[f][i].content = S_compatible )
        => disk[f] = disk0[f]

\* C5: the text written is the per-chunk results joined by one newline, in
\* chunk order: n results give n-1 separators.
C5_JoinedInOrder ==
    \A f \in Paths :
        pc[f] = "done" =>
            LET parts == updated_file_content[f]
                n == Len(chunks[f])
            IN  /\ Len(parts) = n
                /\ Len(final_code[f]) = TotalLen(parts) + (IF n >= 1 THEN n - 1 ELSE 0)
                /\ \A i \in 1..n :
                      /\ parts[i] = ResultOf(f, i)
                      /\ SegmentAt(final_code[f], parts, i) = parts[i]
                      /\ i < n => final_code[f][OffsetOf(parts, i) + Len(parts[i]) + 1] = LF

C5_Witness ==
    \E f \in Paths :
        /\ pc[f] = "done"
        /\ Len(chunks[f]) = 2
        /\ Len(original_code[f]) = 12
        /\ updated_file_content[f] = << R_NEW, chunks[f][2] >>
        /\ final_code[f] = R_NEW \o << LF >> \o chunks[f][2]

\* the context extract_context gives for each content tried (computed with
\* the Python function)
ExpectedContext(bytes) ==
    CASE bytes = B_CTX -> <<"u", "s", "i", "n", "g", " ", "A", ";">>
      [] bytes = B_LONG -> <<"C", "l", "a", "s", "s", "e", "s", ":", " ",
                             "c", "l", "a", "s", "s", " ", "C">>
      [] bytes = B_SMALL -> <<"u", "s", "i", "n", "g", " ", "A", ";">>
      [] OTHER -> << >>

\* C6: with at most one chunk extract_context is not run, the context is
\* empty and the code section is the chunk alone; with more chunks it runs
\* once on the whole text, every call of the file gets that same context, and
\* the code section is context, blank line, chunk when the context is not
\* empty.
C6_ContextOncePerFile ==
    \A f \in Paths :
        pc[f] \in {"loop", "call", "done"} =>
            LET n == Len(chunks[f])
                ctx == IF n > 1 THEN ExpectedContext(disk0[f]) ELSE << >>
            IN  /\ io[f].extracts = (IF n > 1 THEN 1 ELSE 0)
                /\ context[f] = ctx
                /\ \A k \in 1..Len(calls[f]) :
                      /\ calls[f][k].prompt.chunk_context = ctx
                      /\ calls[f][k].prompt.code_chunk =
                            (IF ctx # << >> THEN ctx \o << LF, LF >> \o chunks[f][k]
                             ELSE chunks[f][k])

C6_Witness ==
    \E f \in Paths :
        /\ pc[f] = "done"
        /\ Len(chunks[f]) = 3
        /\ io[f].extracts = 1
        /\ context[f] # << >>
        /\ \A k \in 1..3 : calls[f][k].prompt.chunk_context = context[f]
        /\ calls[f][3].prompt.code_chunk = context[f] \o << LF, LF >> \o chunks[f][3]

CompletionLogged ==
    \E k \in 1..Len(log["main"]) : log["main"][k].msg = "All files processed"

\* C7: with at least one file found, main submits one task per found file,
\* logs overall completion only when every submitted task has ended (done
\* or failed), and then returns normally.
C7_WaitsForEveryTask ==
    /\ Len(futures) <= Len(cs_files)
    /\ \A i \in 1..Len(futures) : futures[i] = cs_files[i]
    /\ \A i, j \in 1..Len(cs_files) : cs_files[i] = cs_files[j] => i = j
    /\ \A p \in Paths : pc[p] # "none" <=> \E i \in 1..Len(futures) : futures[i] = p
    /\ CompletionLogged =>
          /\ cs_files # << >>
          /\ futures = cs_files
          /\ \A i \in 1..Len(cs_files) : pc[cs_files[i]] \in {"done", "failed"}
          /\ main_pc = "returned"
    /\ (main_pc = "returned" /\ cs_files # << >>) => CompletionLogged

C7_Witness ==
    /\ CompletionLogged
    /\ main_pc = "returned"
    /\ Len(futures) = 2
    /\ \E p, q \in Paths : pc[p] = "failed" /\ pc[q] = "done"

\* C8: scenario A: when no file matches (the root missing included), main logs
\* one warning and returns: no task, no remote call, no write, and neither
\* the start nor the completion message.
C8_NoFilesNoWork ==
    ((~root_exists \/ tree \cap {PathA, PathB} = {}) /\ main_pc # "start") =>
        /\ main_pc = "returned"
        /\ log["main"] = << [level |-> "WARNING", msg |-> "No .cs files found"] >>
        /\ futures = << >>
        /\ work_queue = << >>
        /\ disk = disk0
        /\ \A p \in Paths :
              pc[p] = "none" /\ calls[p] = << >> /\ io[p] = NoIo /\ log[p] = << >>

C8_Witness ==
    /\ root_exists
    /\ tree = {PathD}
    /\ main_pc = "returned"
    /\ Len(log["main"]) = 1

\* C9: a file of n chunks gets n remote calls, one per chunk in chunk order,
\* each over before the next begins; a call that raised is not made again and
\* stops neither the later calls nor the write.
C9_OneCallPerChunkInOrder ==
    \A f \in Paths :
        /\ Len(calls[f]) <= Len(chunks[f])
        /\ \A i \in 1..Len(calls[f]) : calls[f][i].chunk = chunks[f][i]
        /\ \A i \in 1..(Len(calls[f]) - 1) : calls[f][i].status \in {"returned", "raised"}
        /\ pc[f] = "call" <=>
              (calls[f] # << >> /\ calls[f][Len(calls[f])].status = "inflight")
        /\ Len(updated_file_content[f]) =
              Len(calls[f]) - (IF pc[f] = "call" THEN 1 ELSE 0)
        /\ pc[f] = "done" => Len(calls[f]) = Len(chunks[f]) /\ io[f].writes = 1
        /\ pc[f] = "failed" => calls[f] = << >>

C9_Witness ==
    \E f \in Paths :
        /\ pc[f] = "done"
        /\ Len(chunks[f]) = 3
        /\ calls[f][1].status = "raised"
        /\ calls[f][2].status = "returned"
        /\ calls[f][3].status = "raised"
        /\ io[f].writes = 1

\* what f's task writes when it runs alone: its own results, joined and encoded
OutputAlone(f) ==
    TranslateNewlines(
        Join(<< LF >>, [i \in 1..Len(chunks[f]) |-> ResultOf(f, i)]), linesep)

C10_Isolated ==
    \A f \in Paths :
        /\ io[f].reads <= 1 /\ io[f].writes <= 1
        /\ pc[f] = "failed" =>
              /\ ~Decodable(disk0[f])
              /\ disk[f] = disk0[f]
              /\ io[f] = [reads |-> 1, writes |-> 0, extracts |-> 0]
              /\ calls[f] = << >>
        /\ pc[f] = "done" =>
              /\ Decodable(disk0[f])
              /\ chunks[f] = chunk_text(UniversalNewlines(disk0[f]), CHUNK_SIZE)
              /\ io[f].reads = 1 /\ io[f].writes = 1
              /\ disk[f] = OutputAlone(f)
        /\ pc[f] \in {"none", "queued", "read"} => disk[f] = disk0[f] /\ io[f] = NoIo

EndOf(f) == IF Decodable(disk0[f]) THEN "done" ELSE "failed"

\* C10: under any interleaving, a read failure ends only the failing file's
\* task: that file is never written and gets no remote call, every other
\* submitted task still runs to done with the output it produces alone, and
\* each file is read and written at most once.
C10_ReadFailureIsContained ==
    /\ []C10_Isolated
    /\ (pc[PathA] = "queued") ~> (pc[PathA] = EndOf(PathA))
    /\ (pc[PathB] = "queued") ~> (pc[PathB] = EndOf(PathB))
    /\ <>(main_pc = "returned")

C10_Witness ==
    /\ pc[PathB] = "failed"
    /\ pc[PathA] = "done"
    /\ max_workers = 1
    /\ futures = << PathB, PathA >>
    /\ calls[PathA] # << >>
    /\ disk[PathA] # disk0[PathA]

============================================================================
